---- MODULE Spec2Model ----
(***************************************************************************)
(* TortoiseDLAS: two programs.                                             *)
(*                                                                         *)
(*  - codes/scripts/audio/speech_to_speech_clip.py: the batch script that  *)
(*    walks a directory tree, and for every leaf directory computes the    *)
(*    nearest-neighbour map of its audio clips and saves it as             *)
(*    similarities.pth (specification SpecBatch).                          *)
(*  - codes/models/gpt_voice/unet_diffusion_vocoder_with_ref.py: the       *)
(*    constructor and the forward pass of DiffusionVocoderWithRef, as the  *)
(*    bookkeeping of channel counts, lengths and the residual stack        *)
(*    (specification SpecUNet).                                            *)
(***************************************************************************)
EXTENDS Integers, Sequences, FiniteSets, TLC

VARIABLES
    \* ---- the file system (speech_to_speech_clip.py) ----
    nd,             \* number of directories of the tree, directory 1 is root_path
    parent,         \* parent[d]: the directory that holds directory d (d >= 2)
    nAudio,         \* nAudio[d]: number of audio files directly in d
    seed,           \* which similarity model was trained (see Score)
    hasOutput,      \* hasOutput[d]: d holds a file similarities.pth
    content,        \* content[d]: what similarities.pth of d holds
    \* ---- the process ----
    num_workers,    \* args.num_workers
    mainpc,         \* where __main__ is
    all_files,      \* the list returned by recursively_find_audio_directories
    nextTask,       \* tasks of all_files handed out so far
    collected,      \* results the main thread has taken from pool.imap
    status,         \* status[i]: state of the task of all_files[i]
    clip_model,     \* the global clip_model: 0 is None, k the k-th loaded instance
    wk,             \* wk[w]: the thread w that runs process_subdir
    \* ---- history ----
    loads,          \* calls of load_model_from_config in this process
    usedInst,       \* usedInst[i]: model instances task i ran inference with
    writes,         \* writes[d]: calls of torch.save on d's output file
    overwrote,      \* a torch.save hit an output file that existed
    runs,           \* runs of the script so far
    \* ---- DiffusionVocoderWithRef: the constructor's arguments ----
    cfg,            \* num_res_blocks, channel_mult, the resolution sets, ...
    \* ---- __init__ ----
    cpc,            \* where the constructor is
    level,          \* level of the enumerate loops, from 0
    blk,            \* i of the inner loop over the output blocks
    ch,             \* the channel count carried along
    ds,             \* the downsample rate carried along
    input_blocks,   \* self.input_blocks, each module with its channel counts
    input_block_chans,  \* the list of channel counts pushed for the skips
    middle_block,   \* self.middle_block
    output_blocks,  \* self.output_blocks
    out,            \* self.out
    nPush,          \* appends to input_block_chans
    nPop,           \* pops of input_block_chans
    \* ---- forward ----
    fpc,            \* where forward is
    x_len,          \* x.shape[-1]
    codes_len,      \* discrete_spectrogram.shape[-1]
    h,              \* the tensor h: channels and length
    hs,             \* the list of saved feature maps
    k,              \* the module to run next
    hsPush,         \* appends to hs
    hsPop,          \* pops of hs
    ran,            \* layers run so far
    fault           \* what ended the constructor or forward, "none" if nothing

batchVars == <<nd, parent, nAudio, seed, hasOutput, content, num_workers, mainpc,
               all_files, nextTask, collected, status, clip_model, wk, loads,
               usedInst, writes, overwrote, runs>>

unetVars == <<cfg, cpc, level, blk, ch, ds, input_blocks, input_block_chans,
              middle_block, output_blocks, out, nPush, nPop, fpc, x_len,
              codes_len, h, hs, k, hsPush, hsPop, ran, fault>>

vars == <<batchVars, unetVars>>

----------------------------------------------------------------------------
(* Bounds of the model *)

\* directories in a tree
MaxDirs == 3
\* runs of the script over the same tree
MaxRuns == 2

\* numbers of audio files a directory is given: none, one, fewer than 4,
\* and one chunk of 256 plus a full top-k of 4
AudioCounts == {0, 1, 3, 260}
\* the --num_workers values: sequential, and a pool of two threads
WorkerChoices == {1, 2}
Seeds == {0, 1}

(* Program constants *)

\* clips[:256], the chunk of one inference call
ChunkSize == 256
\* min(4, len(sim)): the top-k taken per clip
TopK == 4

Min(a, b) == IF a < b THEN a ELSE b
Abs(a) == IF a < 0 THEN -a ELSE a
Range(s) == {s[i] : i \in 1..Len(s)}

Dirs == 1..MaxDirs

----------------------------------------------------------------------------
(* recursively_find_audio_directories *)

Children(d) == {c \in 2..nd : parent[c] = d}

\* the assertion left out
StructureOk_NoAssert(d) == TRUE
\* The assertion of line 32 on one directory. similarities.pth is no audio
\* file, so it is in neither list.
StructureOk(d) == Children(d) = {} \/ nAudio[d] = 0

RECURSIVE FindIn(_)
RECURSIVE FindEach(_, _)

\* res.extend(...) over the subdirectories, in the order of their numbers
FindEach(todo, acc) ==
    IF todo = {} \/ ~acc.ok THEN acc
    ELSE LET c == CHOOSE x \in todo : \A y \in todo : x <= y
             r == FindIn(c)
         IN  FindEach(todo \ {c}, [ok |-> r.ok, res |-> acc.res \o r.res])

\* [ok |-> the assertions passed, res |-> the leaf directories found]
FindIn(d) ==
    IF ~StructureOk(d) THEN [ok |-> FALSE, res |-> <<>>]
    ELSE IF Children(d) # {} THEN FindEach(Children(d), [ok |-> TRUE, res |-> <<>>])
    ELSE [ok |-> TRUE, res |-> <<d>>]

recursively_find_audio_directories == FindIn(1)

----------------------------------------------------------------------------
(* process_subdir: the similarity matrix and the map built from it *)

\* What the similarity model is assumed to return: a clip is most similar to
\* itself (the comment of line 88), and the other scores of a row are
\* positive and pairwise distinct. Seed 0 scores near file numbers higher,
\* seed 1 far ones.
SelfSim == 4 * ChunkSize + 8
Score(s, a, b) ==
    IF a = b THEN SelfSim
    ELSE LET far == 2 * Abs(a - b) - (IF a < b THEN 1 ELSE 0)
         IN  IF s = 0 THEN SelfSim - far ELSE far

\* clip_model.inference(mels) on the m clips after the first `base`
Inference(s, base, m) ==
    [i \in 1..m |-> [j \in 1..m |-> Score(s, base + i, base + j)]]

\* F.pad(outp, (0, 256 - outp.shape[-1]))
PadRows(outp) ==
    [i \in 1..Len(outp) |->
        outp[i] \o [j \in 1..(ChunkSize - Len(outp[i])) |-> 0]]

RECURSIVE SimsLoop(_, _, _, _)
\* the while loop of lines 65-75; sims is [none, rows]
SimsLoop(s, n, base, sims) ==
    IF base >= n THEN sims
    ELSE LET m == Min(ChunkSize, n - base)
             outp == Inference(s, base, m)
         IN  IF sims.none
             THEN SimsLoop(s, n, base + m, [none |-> FALSE, rows |-> outp])
             ELSE SimsLoop(s, n, base + m,
                     [none |-> FALSE,
                      rows |-> sims.rows \o
                               (IF m # ChunkSize THEN PadRows(outp) ELSE outp)])

Sims(s, n) == SimsLoop(s, n, 0, [none |-> TRUE, rows |-> <<>>])

RECURSIVE ArgMaxIn(_, _, _, _)
\* the index in lo..hi, outside taken, of the largest entry of row (the first
\* of equal ones), 0 if there is none; by halves, to keep the nesting shallow
ArgMaxIn(row, taken, lo, hi) ==
    IF lo = hi THEN (IF lo \in taken THEN 0 ELSE lo)
    ELSE LET mid == (lo + hi) \div 2
             l == ArgMaxIn(row, taken, lo, mid)
             r == ArgMaxIn(row, taken, mid + 1, hi)
         IN  IF l = 0 THEN r
             ELSE IF r = 0 THEN l
             ELSE IF row[r] > row[l] THEN r ELSE l

RECURSIVE TopKFrom(_, _, _)
TopKFrom(row, n, acc) ==
    IF Len(acc) = n THEN acc
    ELSE TopKFrom(row, n, Append(acc, ArgMaxIn(row, Range(acc), 1, Len(row))))

\* torch.topk(sim, n).indices, numbered from 1
TopKIndices(row, n) == TopKFrom(row, n, <<>>)

\* the branch n == 1 without its append
SingleEntry_NoSelf(a) == <<>>
\* lines 85-86: the list stored for a single clip (n == 1) is the clip itself
SingleEntry(a) == <<a>>

\* simpaths of the clip a with the row sim (lines 81-90). A path is the
\* number of the file in paths, so paths[top_ind] is top_ind itself.
SimPaths(a, sim) ==
    LET n == Min(TopK, Len(sim))
        top3 == TopKIndices(sim, n)
    IN  IF n = 1 THEN SingleEntry(a)
        ELSE SubSeq(top3, 2, n)

RECURSIVE SimMapFrom(_, _, _)
\* the for loop of line 80 over zip(paths, sims), for the files lo..hi; by
\* halves, to keep the nesting shallow
SimMapFrom(sims, lo, hi) ==
    IF lo > hi THEN <<>>
    ELSE IF lo = hi THEN <<SimPaths(lo, sims[lo])>>
    ELSE LET mid == (lo + hi) \div 2
         IN  SimMapFrom(sims, lo, mid) \o SimMapFrom(sims, mid + 1, hi)

\* simmap for a directory of n > 0 files (lines 77-91): simmap[a] is the
\* list stored for file a
SimMapOf(s, n) ==
    LET sims == Sims(s, n).rows
    IN  SimMapFrom(sims, 1, Min(n, Len(sims)))

RECURSIVE SimMapTableOver(_)
SimMapTableOver(counts) ==
    IF counts = {} THEN <<>>
    ELSE LET n == CHOOSE x \in counts : TRUE
         IN  (n :> <<SimMapOf(0, n), SimMapOf(1, n)>>) @@ SimMapTableOver(counts \ {n})

\* SimMapOf, computed once for each directory size and model:
\* SimMapTable[n][s + 1] = SimMapOf(s, n)
SimMapTable == SimMapTableOver(AudioCounts \ {0})

----------------------------------------------------------------------------
(* The file system and the process at the start of a run *)

NoContent == [kind |-> "none", map |-> <<>>]
\* a similarities.pth found in the tree, written by something earlier
OldContent == [kind |-> "old", map |-> <<>>]

IdleThread == [pc |-> "idle", task |-> 0, chunk |-> 0, none |-> TRUE]

Threads == 1..num_workers

BatchInit ==
    /\ nd \in 1..MaxDirs
    /\ parent \in [2..nd -> Dirs]
    /\ \A d \in 2..nd : parent[d] < d
    /\ nAudio \in [1..nd -> AudioCounts]
    /\ hasOutput \in [1..nd -> BOOLEAN]
    \* one directory of more than a chunk is enough for a tree
    /\ Cardinality({d \in 1..nd : nAudio[d] > ChunkSize}) <= 1
    \* the model's scores matter only where a clip has peers to rank
    /\ seed \in Seeds
    /\ seed = 0 \/ \E d \in 1..nd : nAudio[d] > 1
    /\ content = [d \in 1..nd |-> IF hasOutput[d] THEN OldContent ELSE NoContent]
    /\ num_workers \in WorkerChoices
    /\ mainpc = "start"
    /\ all_files = <<>>
    /\ nextTask = 0
    /\ collected = 0
    /\ status = <<>>
    /\ clip_model = 0
    /\ wk = [w \in Threads |-> IdleThread]
    /\ loads = 0
    /\ usedInst = <<>>
    /\ writes = [d \in 1..nd |-> 0]
    /\ overwrote = FALSE
    /\ runs = 1

fsVars == <<nd, parent, nAudio, seed>>

----------------------------------------------------------------------------
(* __main__ *)

\* line 112: the traversal; a failed assertion ends the process
Traverse ==
    /\ mainpc = "start"
    /\ LET r == recursively_find_audio_directories
       IN  IF r.ok
           THEN /\ mainpc' = "run"
                /\ all_files' = r.res
                /\ status' = [i \in 1..Len(r.res) |-> "pending"]
                /\ usedInst' = [i \in 1..Len(r.res) |-> {}]
           ELSE /\ mainpc' = "assert_failed"
                /\ UNCHANGED <<all_files, status, usedInst>>
    /\ UNCHANGED <<fsVars, hasOutput, content, num_workers, nextTask, collected,
                   clip_model, wk, loads, writes, overwrote, runs>>
    /\ UNCHANGED unetVars

\* A thread takes the next directory: the for loop of line 119 (the main
\* thread, num_workers <= 1) or a pool thread taking the next task of imap.
TakeTask(w) ==
    /\ mainpc = "run"
    /\ wk[w].pc = "idle"
    /\ nextTask < Len(all_files)
    /\ nextTask' = nextTask + 1
    /\ status' = [status EXCEPT ![nextTask + 1] = "running"]
    /\ wk' = [wk EXCEPT ![w] = [pc |-> "check_model", task |-> nextTask + 1,
                                 chunk |-> 0, none |-> TRUE]]
    /\ UNCHANGED <<fsVars, hasOutput, content, num_workers, mainpc, all_files,
                   collected, clip_model, loads, usedInst, writes, overwrote, runs>>
    /\ UNCHANGED unetVars

\* line 43: if clip_model is None
CheckModel(w) ==
    /\ mainpc = "run"
    /\ wk[w].pc = "check_model"
    /\ wk' = [wk EXCEPT ![w].pc =
                 IF clip_model = 0 THEN "load_model" ELSE "check_exists"]
    /\ UNCHANGED <<fsVars, hasOutput, content, num_workers, mainpc, all_files,
                   nextTask, collected, status, clip_model, loads, usedInst,
                   writes, overwrote, runs>>
    /\ UNCHANGED unetVars

\* line 45: clip_model = load_model_from_config(...)
LoadModel(w) ==
    /\ mainpc = "run"
    /\ wk[w].pc = "load_model"
    /\ loads' = loads + 1
    /\ clip_model' = loads + 1
    /\ wk' = [wk EXCEPT ![w].pc = "check_exists"]
    /\ UNCHANGED <<fsVars, hasOutput, content, num_workers, mainpc, all_files,
                   nextTask, collected, status, usedInst, writes, overwrote, runs>>
    /\ UNCHANGED unetVars

\* The end of a call of process_subdir. In the for loop a fault ends the
\* process at once; in the pool the result waits for the main thread.
Finished(w, result) ==
    /\ status' = [status EXCEPT ![wk[w].task] = result]
    /\ wk' = [wk EXCEPT ![w] = IdleThread]
    /\ IF num_workers <= 1
       THEN /\ collected' = collected + 1
            /\ mainpc' = IF result = "fault" THEN "crashed"
                         ELSE IF collected + 1 = Len(all_files) THEN "done"
                         ELSE mainpc
       ELSE UNCHANGED <<collected, mainpc>>

\* the check for an existing file left out
OutputExists_Never(d) == FALSE
\* line 50: if os.path.exists(output_file)
OutputExists(d) == hasOutput[d]

\* lines 47-53
CheckExists(w) ==
    /\ mainpc = "run"
    /\ wk[w].pc = "check_exists"
    /\ IF OutputExists(all_files[wk[w].task])
       THEN Finished(w, "skipped")
       ELSE /\ wk' = [wk EXCEPT ![w].pc = "featurize"]
            /\ UNCHANGED <<status, collected, mainpc>>
    /\ UNCHANGED <<fsVars, hasOutput, content, num_workers, all_files, nextTask,
                   clip_model, loads, usedInst, writes, overwrote, runs>>
    /\ UNCHANGED unetVars

\* lines 65-75: one round of the while loop, with the model clip_model names
\* at that moment; with no clips left (or none at all) the loop is over.
Featurize(w) ==
    /\ mainpc = "run"
    /\ wk[w].pc = "featurize"
    /\ LET d == all_files[wk[w].task]
       IN  IF wk[w].chunk * ChunkSize < nAudio[d]
           THEN /\ wk' = [wk EXCEPT ![w].chunk = @ + 1, ![w].none = FALSE]
                /\ usedInst' = [usedInst EXCEPT ![wk[w].task] = @ \cup {clip_model}]
           ELSE /\ wk' = [wk EXCEPT ![w].pc = "save"]
                /\ UNCHANGED usedInst
    /\ UNCHANGED <<fsVars, hasOutput, content, num_workers, mainpc, all_files,
                   nextTask, collected, status, clip_model, loads, writes,
                   overwrote, runs>>
    /\ UNCHANGED unetVars

\* lines 77-92: zip(paths, sims) faults on sims = None, else simmap is built
\* and saved
BuildAndSave(w) ==
    /\ mainpc = "run"
    /\ wk[w].pc = "save"
    /\ LET d == all_files[wk[w].task]
       IN  IF wk[w].none
           THEN /\ Finished(w, "fault")
                /\ UNCHANGED <<hasOutput, content, writes, overwrote>>
           ELSE /\ content' = [content EXCEPT ![d] =
                        [kind |-> "map", map |-> SimMapTable[nAudio[d]][seed + 1]]]
                /\ overwrote' = (overwrote \/ hasOutput[d])
                /\ hasOutput' = [hasOutput EXCEPT ![d] = TRUE]
                /\ writes' = [writes EXCEPT ![d] = @ + 1]
                /\ Finished(w, "written")
    /\ UNCHANGED <<fsVars, num_workers, all_files, nextTask, clip_model, loads,
                   usedInst, runs>>
    /\ UNCHANGED unetVars

\* line 117: list(pool.imap(fn, all_files)) takes the results in the order of
\* all_files; a task's fault is raised again in the main thread, the pool is
\* terminated and the process ends with its daemon threads.
Collect ==
    /\ mainpc = "run"
    /\ num_workers > 1
    /\ collected < Len(all_files)
    /\ status[collected + 1] \in {"skipped", "written", "fault"}
    /\ IF status[collected + 1] = "fault"
       THEN /\ mainpc' = "crashed"
            /\ UNCHANGED collected
       ELSE /\ collected' = collected + 1
            /\ mainpc' = IF collected + 1 = Len(all_files) THEN "done" ELSE mainpc
    /\ UNCHANGED <<fsVars, hasOutput, content, num_workers, all_files, nextTask,
                   status, clip_model, wk, loads, usedInst, writes, overwrote, runs>>
    /\ UNCHANGED unetVars

\* The script is started again on the same tree, as a new process.
Rerun ==
    /\ mainpc \in {"done", "crashed"}
    /\ runs < MaxRuns
    /\ runs' = runs + 1
    /\ mainpc' = "start"
    /\ all_files' = <<>>
    /\ nextTask' = 0
    /\ collected' = 0
    /\ status' = <<>>
    /\ clip_model' = 0
    /\ wk' = [w \in Threads |-> IdleThread]
    /\ loads' = 0
    /\ usedInst' = <<>>
    /\ UNCHANGED <<fsVars, hasOutput, content, num_workers, writes, overwrote>>
    /\ UNCHANGED unetVars

BatchNext ==
    \/ Traverse
    \/ \E w \in Threads : TakeTask(w)
    \/ \E w \in Threads : CheckModel(w)
    \/ \E w \in Threads : LoadModel(w)
    \/ \E w \in Threads : CheckExists(w)
    \/ \E w \in Threads : Featurize(w)
    \/ \E w \in Threads : BuildAndSave(w)
    \/ Collect
    \/ Rerun

----------------------------------------------------------------------------
(* Claims about the batch script *)

LeafTasks == 1..Len(all_files)
Written(d) == content[d].kind = "map"

\* C1 (as stated): for a leaf directory with exactly one audio file, the
\* list stored for that file is empty.
C1_SingleFileListEmpty ==
    \A d \in 1..nd : (Written(d) /\ nAudio[d] = 1) => content[d].map = << <<>> >>

\* C1 (amended): for a leaf directory with exactly one audio file, the map
\* stored has that file alone, and the list stored for it holds exactly one
\* entry, the file itself.
C1_SingleFileListsItself ==
    \A d \in 1..nd : (Written(d) /\ nAudio[d] = 1) => content[d].map = << <<1>> >>

C1_Witness ==
    \E d \in 1..nd : Written(d) /\ nAudio[d] = 1 /\ writes[d] = 1

\* C2: similarities.pth is never overwritten: torch.save never hits a
\* directory that holds the file, each output file is written at most once
\* over all runs, and a file found in the tree stays as it was found.
C2_NeverOverwrites ==
    /\ ~overwrote
    /\ \A d \in 1..nd :
          /\ writes[d] <= 1
          /\ writes[d] = 1 => (hasOutput[d] /\ content[d].kind = "map")
          /\ writes[d] = 0 => content[d] = (IF hasOutput[d] THEN OldContent ELSE NoContent)

\* a second run, with a pool, skips a directory the first run wrote, and
\* another directory is skipped for a file that was there from the start
C2_Witness ==
    /\ runs = 2
    /\ num_workers > 1
    /\ \E i \in LeafTasks : status[i] = "skipped" /\ writes[all_files[i]] = 1
    /\ \E i \in LeafTasks : status[i] = "skipped" /\ content[all_files[i]] = OldContent

\* a directory that holds a subdirectory and an audio file
AudioMixed(d) == Children(d) # {} /\ nAudio[d] > 0
\* a directory that holds a subdirectory and a file of any kind
AnyMixed(d) == Children(d) # {} /\ (nAudio[d] > 0 \/ hasOutput[d])

\* C5 (as stated): the traversal fails its assertion whenever a directory of
\* the tree holds a subdirectory and a file at the same time.
C5_AnyMixedFails ==
    mainpc # "start" =>
        ((\E d \in 1..nd : AnyMixed(d)) => mainpc = "assert_failed")

\* C5 (amended): the traversal fails its assertion exactly when a directory
\* of the tree, at any depth, holds a subdirectory and an audio file at the
\* same time; files that are no audio files are not counted. So every
\* directory of an accepted tree has no subdirectory or no audio file.
C5_AudioMixedFails ==
    mainpc # "start" =>
        ((\E d \in 1..nd : AudioMixed(d)) <=> mainpc = "assert_failed")

\* the assertion failed for a directory below the root, the root being fine
C5_Witness ==
    /\ mainpc = "assert_failed"
    /\ ~AudioMixed(1)
    /\ \E d \in 2..nd : AudioMixed(d)

\* C6: load_model_from_config is called at most once per process and every
\* task runs its inference with that one instance.
C6_LoadedOnce ==
    /\ loads <= 1
    /\ Cardinality(UNION {usedInst[i] : i \in DOMAIN usedInst}) <= 1

\* the list L stored for file a of a directory of n files: at most 3 of the
\* other files, those with the highest scores to a, highest first
IsTopPeers(s, n, a, L) ==
    /\ Len(L) = Min(TopK - 1, n - 1)
    /\ \A i \in 1..Len(L) : L[i] \in (1..n) \ {a}
    /\ \A i \in 1..(Len(L) - 1) : Score(s, a, L[i]) > Score(s, a, L[i + 1])
    /\ \A b \in (1..n) \ ({a} \cup Range(L)) :
          \A i \in 1..Len(L) : Score(s, a, b) < Score(s, a, L[i])

\* C7: in a directory with peers, whatever their number, the list stored for
\* each file is that of its highest scoring peers, without the file itself,
\* in descending order, at most 3. (The directory of a single file is C1.)
C7_StoredListsAreTopPeers ==
    \A d \in 1..nd : (Written(d) /\ nAudio[d] >= 2) =>
        /\ Len(content[d].map) = nAudio[d]
        /\ \A a \in 1..nAudio[d] : IsTopPeers(seed, nAudio[d], a, content[d].map[a])

\* C8: when the run is over, a fault of one task has stopped no other one:
\* every directory whose task did not fault was skipped or written.
C8_FaultIsolated ==
    mainpc \in {"done", "crashed"} =>
        \A i \in LeafTasks : status[i] \in {"skipped", "written", "fault"}

\* C9: when the run is over, every leaf directory the traversal returned
\* holds similarities.pth.
C9_AllMarked ==
    mainpc \in {"done", "crashed"} =>
        \A i \in LeafTasks : hasOutput[all_files[i]]

----------------------------------------------------------------------------
(* DiffusionVocoderWithRef *)

(* Bounds of the model *)

\* levels of channel_mult
MaxLevels == 3
\* num_res_blocks
MaxResBlocks == 2

\* the multipliers channel_mult is made of
Mults == {1, 2}
\* the rates the two resolution sets are made of
CondRates == {1, 2}
AttnRates == {2}
ScaleFactors == {2, 3}

(* Program constants *)

\* model_channels of the module's own test
ModelChannels == 32
\* in_channels
InChannels == 1
\* assert x.shape[-1] % 4096 == 0
StrideAssert == 4096

\* the lengths of x and of the codes forward is called with
XLens == {1000, StrideAssert, 3 * StrideAssert}
CodeLens == {500, 5000}

Configs ==
    [num_res_blocks : 0..MaxResBlocks,
     channel_mult : UNION {[1..n -> Mults] : n \in 1..MaxLevels},
     spectrogram_conditioning_resolutions : SUBSET CondRates,
     attention_resolutions : SUBSET AttnRates,
     scale_factor : ScaleFactors,
     conditioning_inputs_provided : BOOLEAN]

NoTensor == [c |-> 0, len |-> 0]
NoOut == [norm |-> 0, conv |-> 0]

Last(s) == s[Len(s)]
Front(s) == SubSeq(s, 1, Len(s) - 1)

\* lines 125-135: the constructor up to the loop over the levels
UNetInit ==
    /\ cfg \in Configs
    /\ cpc = "input_blocks"
    /\ level = 0
    /\ blk = 0
    /\ ch = ModelChannels
    /\ ds = 1
    /\ input_blocks = <<[kind |-> "conv", cin |-> InChannels, cout |-> ModelChannels,
                         attn |-> 0, factor |-> 1]>>
    /\ input_block_chans = <<ModelChannels>>
    /\ middle_block = 0
    /\ output_blocks = <<>>
    /\ out = NoOut
    /\ nPush = 1
    /\ nPop = 0
    /\ fpc = "idle"
    /\ x_len = 0
    /\ codes_len = 0
    /\ h = NoTensor
    /\ hs = <<>>
    /\ k = 0
    /\ hsPush = 0
    /\ hsPop = 0
    /\ ran = 0
    /\ fault = "none"

\* line 167: if level != len(channel_mult) - 1
HasDownsample(lv) == lv # Len(cfg.channel_mult) - 1

\* one output block too few per level: range(num_res_blocks)
OutputBlocksPerLevel_Short == cfg.num_res_blocks
\* line 220: for i in range(num_res_blocks + 1)
OutputBlocksPerLevel == cfg.num_res_blocks + 1

\* the in_channels of the last convolution, conv_nd(dims, model_channels, ...)
OutConvChannels == ModelChannels

\* lines 137-190: one round of the loop over the levels
BuildInputLevel ==
    /\ cpc = "input_blocks"
    /\ LET mult == cfg.channel_mult[level + 1]
           n == cfg.num_res_blocks
           cond == ds \in cfg.spectrogram_conditioning_resolutions
           ch1 == IF cond THEN ch * 2 ELSE ch
           condBlocks == IF cond
                         THEN <<[kind |-> "cond", cin |-> ch, cout |-> ch * 2,
                                 attn |-> 0, factor |-> 1]>>
                         ELSE <<>>
           resBlocks == [j \in 1..n |->
                           [kind |-> "res",
                            cin |-> IF j = 1 THEN ch1 ELSE mult * ModelChannels,
                            cout |-> mult * ModelChannels,
                            attn |-> IF ds \in cfg.attention_resolutions
                                     THEN mult * ModelChannels ELSE 0,
                            factor |-> 1]]
           ch2 == IF n > 0 THEN mult * ModelChannels ELSE ch1
           down == HasDownsample(level)
           downBlocks == IF down
                         THEN <<[kind |-> "down", cin |-> ch2, cout |-> ch2,
                                 attn |-> 0, factor |-> cfg.scale_factor]>>
                         ELSE <<>>
           pushes == [j \in 1..(n + (IF down THEN 1 ELSE 0)) |-> ch2]
       IN  /\ input_blocks' = input_blocks \o condBlocks \o resBlocks \o downBlocks
           /\ input_block_chans' = input_block_chans \o pushes
           /\ nPush' = nPush + Len(pushes)
           /\ ch' = ch2
           /\ ds' = IF down THEN ds * 2 ELSE ds
    /\ level' = level + 1
    /\ cpc' = IF level + 1 = Len(cfg.channel_mult) THEN "middle_block" ELSE cpc
    /\ UNCHANGED <<cfg, blk, middle_block, output_blocks, out, nPop, fpc, x_len,
                   codes_len, h, hs, k, hsPush, hsPop, ran, fault>>
    /\ UNCHANGED batchVars

\* lines 192-216
BuildMiddle ==
    /\ cpc = "middle_block"
    /\ middle_block' = ch
    /\ cpc' = "output_blocks"
    /\ level' = Len(cfg.channel_mult) - 1
    /\ blk' = 0
    /\ UNCHANGED <<cfg, ch, ds, input_blocks, input_block_chans, output_blocks, out,
                   nPush, nPop, fpc, x_len, codes_len, h, hs, k, hsPush, hsPop,
                   ran, fault>>
    /\ UNCHANGED batchVars

\* lines 219-261: one round of the inner loop; pop() of an empty list raises
BuildOutputBlock ==
    /\ cpc = "output_blocks"
    /\ IF input_block_chans = <<>>
       THEN /\ cpc' = "fault"
            /\ fault' = "pop_empty"
            /\ UNCHANGED <<level, blk, ch, ds, input_block_chans, output_blocks, nPop>>
       ELSE LET mult == cfg.channel_mult[level + 1]
                ich == Last(input_block_chans)
                up == level # 0 /\ blk = cfg.num_res_blocks
                lastOfLevel == blk + 1 >= OutputBlocksPerLevel
            IN  /\ input_block_chans' = Front(input_block_chans)
                /\ nPop' = nPop + 1
                /\ output_blocks' = Append(output_blocks,
                       [cin |-> ch + ich,
                        cout |-> ModelChannels * mult,
                        attn |-> IF ds \in cfg.attention_resolutions
                                 THEN ModelChannels * mult ELSE 0,
                        up |-> up,
                        factor |-> cfg.scale_factor])
                /\ ch' = ModelChannels * mult
                /\ ds' = IF up THEN ds \div 2 ELSE ds
                /\ blk' = IF lastOfLevel THEN 0 ELSE blk + 1
                /\ level' = IF lastOfLevel THEN level - 1 ELSE level
                /\ cpc' = IF lastOfLevel /\ level = 0 THEN "out" ELSE cpc
                /\ UNCHANGED fault
    /\ UNCHANGED <<cfg, input_blocks, middle_block, out, nPush, fpc, x_len,
                   codes_len, h, hs, k, hsPush, hsPop, ran>>
    /\ UNCHANGED batchVars

\* lines 263-267
BuildOut ==
    /\ cpc = "out"
    /\ out' = [norm |-> ch, conv |-> OutConvChannels]
    /\ cpc' = "built"
    /\ UNCHANGED <<cfg, level, blk, ch, ds, input_blocks, input_block_chans,
                   middle_block, output_blocks, nPush, nPop, fpc, x_len,
                   codes_len, h, hs, k, hsPush, hsPop, ran, fault>>
    /\ UNCHANGED batchVars

ctorVars == <<cfg, cpc, level, blk, ch, ds, input_blocks, input_block_chans,
              middle_block, output_blocks, out, nPush, nPop>>

Raise(what) ==
    /\ fpc' = "fault"
    /\ fault' = what

\* lines 294-308: the assertions, then h = x
ForwardStart(xl, cl, condGiven) ==
    /\ cpc = "built"
    /\ fpc = "idle"
    /\ x_len' = xl
    /\ codes_len' = cl
    /\ IF xl % StrideAssert # 0
       THEN Raise("assert_stride") /\ UNCHANGED <<h, k>>
       ELSE IF cfg.conditioning_inputs_provided /\ ~condGiven
       THEN Raise("assert_conditioning") /\ UNCHANGED <<h, k>>
       ELSE /\ fpc' = "input_blocks"
            /\ h' = [c |-> InChannels, len |-> xl]
            /\ k' = 1
            /\ UNCHANGED fault
    /\ UNCHANGED <<ctorVars, hs, hsPush, hsPop, ran>>
    /\ UNCHANGED batchVars

\* The length a module of stride f gives a tensor of length n. Which way the
\* layer rounds a length that f does not divide is the layer's business.
DownLens(n, f) ==
    IF n % f = 0 THEN {n \div f} ELSE {n \div f, n \div f + 1}

\* lines 309-314: one module of self.input_blocks
RunInputBlock ==
    /\ fpc = "input_blocks"
    /\ LET m == input_blocks[k]
           next == IF k = Len(input_blocks) THEN "middle_block" ELSE "input_blocks"
       IN  IF m.kind = "cond"
           THEN \* DiscreteSpectrogramConditioningBlock.forward, lines 24-30
                IF codes_len > h.len
                THEN Raise("assert_codes") /\ UNCHANGED <<h, hs, k, hsPush, ran>>
                ELSE /\ h' = [h EXCEPT !.c = h.c + m.cin]
                     /\ k' = k + 1
                     /\ fpc' = next
                     /\ ran' = ran + 1
                     /\ UNCHANGED <<hs, hsPush, fault>>
           ELSE IF h.c # m.cin
           THEN Raise("channels") /\ UNCHANGED <<h, hs, k, hsPush, ran>>
           ELSE \E len \in (IF m.kind = "down" THEN DownLens(h.len, m.factor)
                                               ELSE {h.len}) :
                     /\ h' = [c |-> m.cout, len |-> len]
                     /\ hs' = Append(hs, [c |-> m.cout, len |-> len])
                     /\ hsPush' = hsPush + 1
                     /\ k' = k + 1
                     /\ fpc' = next
                     /\ ran' = ran + 1
                     /\ UNCHANGED fault
    /\ UNCHANGED <<ctorVars, x_len, codes_len, hsPop>>
    /\ UNCHANGED batchVars

\* line 315
RunMiddle ==
    /\ fpc = "middle_block"
    /\ IF h.c # middle_block
       THEN Raise("channels") /\ UNCHANGED <<k, ran>>
       ELSE /\ fpc' = "output_blocks"
            /\ k' = 1
            /\ ran' = ran + 1
            /\ UNCHANGED fault
    /\ UNCHANGED <<ctorVars, x_len, codes_len, h, hs, hsPush, hsPop>>
    /\ UNCHANGED batchVars

\* lines 316-318: one module of self.output_blocks on cat([h, hs.pop()])
RunOutputBlock ==
    /\ fpc = "output_blocks"
    /\ LET m == output_blocks[k]
       IN  IF hs = <<>>
           THEN Raise("pop_empty") /\ UNCHANGED <<h, hs, k, hsPop, ran>>
           ELSE /\ hs' = Front(hs)
                /\ hsPop' = hsPop + 1
                /\ IF Last(hs).len # h.len
                   THEN Raise("length") /\ UNCHANGED <<h, k, ran>>
                   ELSE IF h.c + Last(hs).c # m.cin
                   THEN Raise("channels") /\ UNCHANGED <<h, k, ran>>
                   ELSE /\ h' = [c |-> m.cout,
                                 len |-> IF m.up THEN h.len * m.factor ELSE h.len]
                        /\ k' = k + 1
                        /\ fpc' = IF k = Len(output_blocks) THEN "out" ELSE fpc
                        /\ ran' = ran + 1
                        /\ UNCHANGED fault
    /\ UNCHANGED <<ctorVars, x_len, codes_len, hsPush>>
    /\ UNCHANGED batchVars

\* lines 319-320: normalization(ch), SiLU, then the last convolution
RunOut ==
    /\ fpc = "out"
    /\ IF h.c # out.norm
       THEN Raise("channels") /\ UNCHANGED ran
       ELSE IF h.c # out.conv
       THEN Raise("channels_out_conv") /\ UNCHANGED ran
       ELSE /\ fpc' = "returned"
            /\ ran' = ran + 1
            /\ UNCHANGED fault
    /\ UNCHANGED <<ctorVars, x_len, codes_len, h, hs, k, hsPush, hsPop>>
    /\ UNCHANGED batchVars

UNetNext ==
    \/ BuildInputLevel
    \/ BuildMiddle
    \/ BuildOutputBlock
    \/ BuildOut
    \/ \E xl \in XLens, cl \in CodeLens, condGiven \in BOOLEAN :
          ForwardStart(xl, cl, condGiven)
    \/ RunInputBlock
    \/ RunMiddle
    \/ RunOutputBlock
    \/ RunOut

----------------------------------------------------------------------------
(* Claims about DiffusionVocoderWithRef *)

RECURSIVE StrideOf(_)
\* the product of the factors of the modules of a list that downsample
StrideOf(blocks) ==
    IF blocks = <<>> THEN 1
    ELSE (IF Last(blocks).kind = "down" THEN Last(blocks).factor ELSE 1)
         * StrideOf(Front(blocks))

\* the total downsampling stride of the model as built
TotalStride == StrideOf(input_blocks)

\* the modules of self.input_blocks whose output forward appends to hs
SavingBlocks == {i \in 1..Len(input_blocks) : input_blocks[i].kind # "cond"}

\* C3: the output blocks pop exactly what the input blocks pushed. In the
\* constructor input_block_chans is never popped when empty, and is empty
\* once the output blocks are built, one block per pushed count; in forward
\* hs is never popped when empty, gets one feature map per output block, and
\* is empty once the output blocks have run.
C3_SkipsBalanced ==
    /\ fault # "pop_empty"
    /\ cpc \in {"out", "built"} =>
          /\ input_block_chans = <<>>
          /\ nPop = nPush
          /\ Len(output_blocks) = nPush
          /\ Cardinality(SavingBlocks) = Len(output_blocks)
    /\ fpc \in {"middle_block", "output_blocks", "out", "returned"} =>
          hsPush = Len(output_blocks)
    /\ fpc \in {"out", "returned"} => (hs = <<>> /\ hsPop = hsPush)

\* forward has returned from a model of several levels with residual blocks
\* and a conditioning block, all pops done
C3_Witness ==
    /\ fpc = "returned"
    /\ Len(cfg.channel_mult) >= 2
    /\ cfg.num_res_blocks >= 1
    /\ \E i \in 1..Len(input_blocks) : input_blocks[i].kind = "cond"
    /\ hsPop = Len(output_blocks)
    /\ hsPop >= 4

\* C4: whenever the length of x is no multiple of the total downsampling
\* stride of the model, forward stops at one of its opening assertions,
\* before any layer has run.
C4_AssertsStride ==
    (fpc \notin {"off", "idle"} /\ x_len % TotalStride # 0) =>
        /\ fpc = "fault"
        /\ fault \in {"assert_stride", "assert_conditioning"}
        /\ ran = 0

\* C10: every layer gets the channel count it was built for: no layer of
\* forward faults on its input channels, and the tensor that reaches self.out
\* has the channels its normalization and its convolution were built with.
C10_ChannelsConsistent ==
    /\ fault \notin {"channels", "channels_out_conv"}
    /\ fpc = "out" => (h.c = out.norm /\ h.c = out.conv)

----------------------------------------------------------------------------
(* The two specifications: each program alone, the other one not started *)

UNetOff ==
    /\ cfg = <<>>
    /\ cpc = "off"
    /\ level = 0
    /\ blk = 0
    /\ ch = 0
    /\ ds = 0
    /\ input_blocks = <<>>
    /\ input_block_chans = <<>>
    /\ middle_block = 0
    /\ output_blocks = <<>>
    /\ out = NoOut
    /\ nPush = 0
    /\ nPop = 0
    /\ fpc = "off"
    /\ x_len = 0
    /\ codes_len = 0
    /\ h = NoTensor
    /\ hs = <<>>
    /\ k = 0
    /\ hsPush = 0
    /\ hsPop = 0
    /\ ran = 0
    /\ fault = "none"

BatchOff ==
    /\ nd = 0
    /\ parent = <<>>
    /\ nAudio = <<>>
    /\ seed = 0
    /\ hasOutput = <<>>
    /\ content = <<>>
    /\ num_workers = 0
    /\ mainpc = "off"
    /\ all_files = <<>>
    /\ nextTask = 0
    /\ collected = 0
    /\ status = <<>>
    /\ clip_model = 0
    /\ wk = <<>>
    /\ loads = 0
    /\ usedInst = <<>>
    /\ writes = <<>>
    /\ overwrote = FALSE
    /\ runs = 0

SpecBatchInit == BatchInit /\ UNetOff
SpecBatch == SpecBatchInit /\ [][BatchNext]_vars

SpecUNetInit == UNetInit /\ BatchOff
SpecUNet == SpecUNetInit /\ [][UNetNext]_vars

====
